---- MODULE Spec2Model ----
(***************************************************************************)
(* Retrieval core of the charity RAG chatbot: token estimation, document   *)
(* chunking, indexing into the vector store, semantic retrieval and        *)
(* context building.                                                       *)
(*                                                                         *)
(* Text is a sequence of characters over a small alphabet that keeps the   *)
(* distinctions the code looks at: lower-case letters, upper-case letters, *)
(* sentence punctuation, the space and the newline.  Any other one-element *)
(* string (such as "[Source:") stands for a run of non-whitespace          *)
(* characters.                                                             *)
(*                                                                         *)
(* An Optional[T] argument is the set {} (None) or {v} (the value v).      *)
(***************************************************************************)
EXTENDS Integers, Sequences, FiniteSets, TLC

VARIABLES
    client,          \* chromadb PersistentClient: collection name -> stored chunks
    collection,      \* ChromaVectorDB.collection of the retriever's adapter
    retrieval_logs,  \* SemanticRetriever.retrieval_logs
    config,          \* SemanticRetriever.config (RetrievalConfig)
    ret,             \* the last retrieve call: arguments, index output, result
    idx,             \* the last process_charity call: arguments, inserted chunks, result
    fn,              \* the last call of a pure function: arguments and result
    fx,              \* _chunk_fixed_size under way: its arguments and locals
    calls,           \* retrieve calls under way side by side: position and locals
    rag,             \* RAGSystem: conversation_history, session_logs, results returned
    SESSIONS,        \* backend.dependencies.SESSIONS: session id -> session
    requests,        \* the requests the chat router has served, in order
    window           \* a ConversationWindow: its limits and its messages

vars == <<client, collection, retrieval_logs, config, ret, idx, fn, fx, calls,
          rag, SESSIONS, requests, window>>

----------------------------------------------------------------------------
(* Bounds of the model *)

MaxTextLen == 4      \* characters of a document handed to chunk_document
MaxChunkSize == 3    \* largest ChunkConfig.chunk_size tried
MaxOverlap == 1      \* largest ChunkConfig.overlap tried
MaxMinChunk == 2     \* largest ChunkConfig.min_chunk_size tried
MaxResults == 3      \* longest result list handed to build_context
MaxWords == 3        \* most words in the text of a result handed to build_context
MaxBudget == 4       \* largest max_tokens handed to build_context
MaxTopK == 2         \* largest top_k (argument or config)
MaxLogs == 2         \* retrieve calls recorded in retrieval_logs
MaxPieces == 5       \* most words and breaks of a document handed to chunk_document
MaxLoopWords == 6    \* most words of a document stepped through the fixed loop
MaxLoopChunk == 4    \* largest chunk_size stepped through the fixed loop
MaxLoopOverlap == 4  \* largest overlap stepped through the fixed loop
MaxDocWords == 3000  \* most words of a document chunked as the indexing scripts do
MaxQueries == 2      \* RAGSystem.query calls in a run
MaxRequests == 3     \* requests served by the chat router in a run
MaxWindowMessages == 2   \* largest ConversationWindow.max_messages tried
MaxWindowTokens == 2     \* largest ConversationWindow.max_tokens tried
MaxAdds == 3         \* add_message calls on a ConversationWindow

----------------------------------------------------------------------------
(* Optional values and small helpers *)

None == {}
Some(v) == {v}
The(o) == CHOOSE v \in o : TRUE
Opt(S) == {None} \cup {Some(v) : v \in S}

Max(a, b) == IF a >= b THEN a ELSE b
Min(a, b) == IF a <= b THEN a ELSE b

RECURSIVE SumSeq(_)
SumSeq(s) == IF s = <<>> THEN 0 ELSE Head(s) + SumSeq(Tail(s))

RECURSIVE Concat(_)
Concat(ss) == IF ss = <<>> THEN <<>> ELSE Head(ss) \o Concat(Tail(ss))

SeqsUpTo(S, n) == UNION {[1..k -> S] : k \in 0..n}

----------------------------------------------------------------------------
(* Python string operations used by the code *)

Lower == {"a"}
Upper == {"B"}
Punct == {"."}
Space == {" ", "\n"}
Char == Lower \cup Upper \cup Punct \cup Space

IsSpace(c) == c \in Space

\* str.split(): the maximal runs of non-whitespace characters
RECURSIVE SplitScan(_, _, _, _)
SplitScan(t, i, cur, acc) ==
    IF i > Len(t)
    THEN (IF cur = <<>> THEN acc ELSE Append(acc, cur))
    ELSE IF IsSpace(t[i])
         THEN SplitScan(t, i + 1, <<>>, IF cur = <<>> THEN acc ELSE Append(acc, cur))
         ELSE SplitScan(t, i + 1, Append(cur, t[i]), acc)

split(t) == SplitScan(t, 1, <<>>, <<>>)

\* sep.join(parts)
RECURSIVE join(_, _)
join(sep, parts) ==
    IF parts = <<>> THEN <<>>
    ELSE IF Len(parts) = 1 THEN parts[1]
    ELSE parts[1] \o sep \o join(sep, Tail(parts))

\* str.strip(): leading and trailing whitespace removed
RECURSIVE lstrip(_)
lstrip(t) == IF t # <<>> /\ IsSpace(Head(t)) THEN lstrip(Tail(t)) ELSE t

RECURSIVE rstrip(_)
rstrip(t) ==
    IF t # <<>> /\ IsSpace(t[Len(t)]) THEN rstrip(SubSeq(t, 1, Len(t) - 1)) ELSE t

strip(t) == rstrip(lstrip(t))

\* text.split('\n\n'): cut at each blank-line separator, empty pieces kept
RECURSIVE SplitParaScan(_, _, _, _)
SplitParaScan(t, i, cur, acc) ==
    IF i > Len(t) THEN Append(acc, cur)
    ELSE IF i < Len(t) /\ t[i] = "\n" /\ t[i + 1] = "\n"
         THEN SplitParaScan(t, i + 2, <<>>, Append(acc, cur))
         ELSE SplitParaScan(t, i + 1, Append(cur, t[i]), acc)

split_paragraphs(t) == SplitParaScan(t, 1, <<>>, <<>>)

\* the end of the run of spaces that starts at i
RECURSIVE SpaceRunEnd(_, _)
SpaceRunEnd(t, i) ==
    IF i < Len(t) /\ t[i + 1] = " " THEN SpaceRunEnd(t, i + 1) ELSE i

\* re.split(r'(?<=[.!?]) +(?=[A-Z])', text): a separator is a run of spaces
\* that follows sentence punctuation and precedes an upper-case letter
RECURSIVE ReSplitScan(_, _, _, _)
ReSplitScan(t, i, cur, acc) ==
    IF i > Len(t) THEN Append(acc, cur)
    ELSE IF /\ t[i] = " "
            /\ i > 1
            /\ t[i - 1] \in Punct
            /\ SpaceRunEnd(t, i) < Len(t)
            /\ t[SpaceRunEnd(t, i) + 1] \in Upper
         THEN ReSplitScan(t, SpaceRunEnd(t, i) + 1, <<>>, Append(acc, cur))
         ELSE ReSplitScan(t, i + 1, Append(cur, t[i]), acc)

\* [s.strip() for s in sentences if s.strip()]
RECURSIVE StripNonEmpty(_)
StripNonEmpty(parts) ==
    IF parts = <<>> THEN <<>>
    ELSE IF strip(Head(parts)) = <<>> THEN StripNonEmpty(Tail(parts))
    ELSE <<strip(Head(parts))>> \o StripNonEmpty(Tail(parts))

_split_into_sentences(t) == StripNonEmpty(ReSplitScan(t, 1, <<>>, <<>>))

\* charity_name.lower().replace(" ", "_")
normalize(name) ==
    [i \in 1..Len(name) |->
        IF name[i] \in Upper THEN "b"
        ELSE IF name[i] = " " THEN "_"
        ELSE name[i]]

\* f"chunk_{chunk_id}"
ChunkIdStr(n) == <<"chunk_", n>>

----------------------------------------------------------------------------
(* Metadata dictionaries: sets of <<key, value>> pairs, one pair per key *)

EmptyDict == {}
CharityMeta(name) == {<<"charity_name", name>>}
SourceMeta == {<<"source", <<"a">>>>}

\* metadata or {}: None and the empty dict are both falsy
OrEmpty(m) == IF m = None THEN EmptyDict ELSE The(m)

\* metadata.get(key, default)
DictGet(m, key, default) ==
    IF \E p \in m : p[1] = key
    THEN (CHOOSE p \in m : p[1] = key)[2]
    ELSE default

HasKey(m, key) == \E p \in m : p[1] = key

----------------------------------------------------------------------------
(* TokenCounter *)

\* the estimate rounded to the nearest integer: round(4 * words / 3)
EstimateRounded(text) == Max(1, (8 * Len(split(text)) + 3) \div 6)

\* max(1, int(words / 0.75)); words / 0.75 = 4 * words / 3
estimate_tokens(text) == Max(1, (4 * Len(split(text))) \div 3)

count_tokens_in_chunk(text) == estimate_tokens(text)

----------------------------------------------------------------------------
(* DocumentChunker *)

\* the window as wide in words as chunk_size, without the factor 0.75
WordsPerChunkUnscaled(cfg) == cfg.chunk_size

\* int(chunk_size * 0.75) and int(overlap * 0.75)
WordsPerChunk(cfg) == (3 * cfg.chunk_size) \div 4
OverlapWords(cfg) == (3 * cfg.overlap) \div 4

RECURSIVE FixedLoop(_, _, _, _, _, _)
FixedLoop(words, start_idx, chunk_id, chunks, metadata, cfg) ==
    IF ~(start_idx < Len(words)) THEN chunks
    ELSE
      LET end_idx == Min(start_idx + WordsPerChunk(cfg), Len(words))
          chunk_text == join(<<" ">>, SubSeq(words, start_idx + 1, end_idx))
          keep == count_tokens_in_chunk(chunk_text) >= cfg.min_chunk_size
          chunk == [id |-> ChunkIdStr(chunk_id),
                    text |-> chunk_text,
                    start_idx |-> start_idx,
                    end_idx |-> end_idx,
                    token_count |-> count_tokens_in_chunk(chunk_text),
                    metadata |-> OrEmpty(metadata)]
          chunks2 == IF keep THEN Append(chunks, chunk) ELSE chunks
          chunk_id2 == IF keep THEN chunk_id + 1 ELSE chunk_id
          next_start_idx == end_idx - OverlapWords(cfg)
      IN  IF next_start_idx >= start_idx /\ end_idx = Len(words)
          THEN chunks2
          ELSE FixedLoop(words, Max(next_start_idx, start_idx + 1), chunk_id2,
                         chunks2, metadata, cfg)

_chunk_fixed_size(text, metadata, cfg) ==
    FixedLoop(split(text), 0, 0, <<>>, metadata, cfg)

\* the chunk flushed from the running list of paragraphs or sentences
Flushed(sep, current_chunk, current_tokens, chunk_id, metadata) ==
    [id |-> ChunkIdStr(chunk_id),
     text |-> join(sep, current_chunk),
     token_count |-> current_tokens,
     metadata |-> OrEmpty(metadata)]

\* the sub chunks spliced in under the ids the fixed split gave them
KeepOwnIds(sub_chunks, chunk_id) == sub_chunks

\* sub_chunk['id'] = f"chunk_{chunk_id}" for each sub chunk, chunk_id counting on
Renumber(sub_chunks, chunk_id) ==
    [i \in 1..Len(sub_chunks) |->
        [sub_chunks[i] EXCEPT !.id = ChunkIdStr(chunk_id + i - 1)]]

\* st: the loop's locals [chunks, current_chunk, current_tokens, chunk_id]
RECURSIVE ParagraphLoop(_, _, _, _)
ParagraphLoop(paragraphs, st, metadata, cfg) ==
    IF paragraphs = <<>> THEN st
    ELSE
      LET para == strip(Head(paragraphs))
          rest == Tail(paragraphs)
          para_tokens == count_tokens_in_chunk(para)
          flush == Flushed(<<"\n", "\n">>, st.current_chunk, st.current_tokens,
                           st.chunk_id, metadata)
      IN  IF para = <<>> THEN ParagraphLoop(rest, st, metadata, cfg)
          ELSE IF para_tokens > cfg.chunk_size
          THEN LET base == IF st.current_chunk # <<>>
                           THEN [chunks |-> Append(st.chunks, flush),
                                 current_chunk |-> <<>>,
                                 current_tokens |-> 0,
                                 chunk_id |-> st.chunk_id + 1]
                           ELSE st
                   sub_chunks == _chunk_fixed_size(para, metadata, cfg)
               IN  ParagraphLoop(rest,
                       [base EXCEPT
                           !.chunks = base.chunks \o Renumber(sub_chunks, base.chunk_id),
                           !.chunk_id = base.chunk_id + Len(sub_chunks)],
                       metadata, cfg)
          ELSE IF st.current_tokens + para_tokens <= cfg.chunk_size
          THEN ParagraphLoop(rest,
                   [st EXCEPT !.current_chunk = Append(st.current_chunk, para),
                              !.current_tokens = st.current_tokens + para_tokens],
                   metadata, cfg)
          ELSE ParagraphLoop(rest,
                   [chunks |-> IF st.current_chunk # <<>>
                               THEN Append(st.chunks, flush) ELSE st.chunks,
                    current_chunk |-> <<para>>,
                    current_tokens |-> para_tokens,
                    chunk_id |-> IF st.current_chunk # <<>>
                                 THEN st.chunk_id + 1 ELSE st.chunk_id],
                   metadata, cfg)

LoopStart == [chunks |-> <<>>, current_chunk |-> <<>>, current_tokens |-> 0,
              chunk_id |-> 0]

\* the running chunk left behind at the end of the input
RemainingDropped(sep, st, metadata) == st.chunks

\* the chunks after the loop, with the remaining running chunk added
Remaining(sep, st, metadata) ==
    IF st.current_chunk # <<>>
    THEN Append(st.chunks,
                Flushed(sep, st.current_chunk, st.current_tokens, st.chunk_id, metadata))
    ELSE st.chunks

_chunk_paragraph(text, metadata, cfg) ==
    Remaining(<<"\n", "\n">>,
              ParagraphLoop(split_paragraphs(text), LoopStart, metadata, cfg),
              metadata)

RECURSIVE SemanticLoop(_, _, _, _)
SemanticLoop(sentences, st, metadata, cfg) ==
    IF sentences = <<>> THEN st
    ELSE
      LET sentence == strip(Head(sentences))
          rest == Tail(sentences)
          sentence_tokens == count_tokens_in_chunk(sentence)
      IN  IF sentence = <<>> THEN SemanticLoop(rest, st, metadata, cfg)
          ELSE IF st.current_tokens + sentence_tokens <= cfg.chunk_size
          THEN SemanticLoop(rest,
                   [st EXCEPT !.current_chunk = Append(st.current_chunk, sentence),
                              !.current_tokens = st.current_tokens + sentence_tokens],
                   metadata, cfg)
          ELSE SemanticLoop(rest,
                   [chunks |-> IF st.current_chunk # <<>>
                               THEN Append(st.chunks,
                                           Flushed(<<>>, st.current_chunk,
                                                   st.current_tokens, st.chunk_id,
                                                   metadata))
                               ELSE st.chunks,
                    current_chunk |-> <<sentence>>,
                    current_tokens |-> sentence_tokens,
                    chunk_id |-> IF st.current_chunk # <<>>
                                 THEN st.chunk_id + 1 ELSE st.chunk_id],
                   metadata, cfg)

_chunk_semantic(text, metadata, cfg) ==
    Remaining(<<>>,
              SemanticLoop(_split_into_sentences(text), LoopStart, metadata, cfg),
              metadata)

chunk_document(text, metadata, cfg) ==
    IF cfg.strategy = "semantic" THEN _chunk_semantic(text, metadata, cfg)
    ELSE IF cfg.strategy = "paragraph" THEN _chunk_paragraph(text, metadata, cfg)
    ELSE _chunk_fixed_size(text, metadata, cfg)

----------------------------------------------------------------------------
(* ContextBuilder *)

Sentinel == <<"No", " ", "relevant", " ", "information", " ", "found.">>

\* len(chunk_text.split()) // 0.75
ChunkTokens(chunk_text) == (4 * Len(split(chunk_text))) \div 3

\* f"{chunk_text}\n[Source: {charity_name}]\n" or chunk_text + "\n"
FormatChunk(chunk, include_sources) ==
    IF include_sources
    THEN chunk.text \o <<"\n", "[Source:", " ">>
         \o DictGet(chunk.metadata, "charity_name", <<"Unknown">>)
         \o <<"]", "\n">>
    ELSE chunk.text \o <<"\n">>

\* the loop with continue in place of break: a later chunk that fits gets in
RECURSIVE ContextLoopSkips(_, _, _, _, _, _)
ContextLoopSkips(chunks, i, context_parts, token_count, max_tokens, include_sources) ==
    IF i > Len(chunks)
    THEN [context_parts |-> context_parts, token_count |-> token_count, stopped |-> 0]
    ELSE IF token_count + ChunkTokens(chunks[i].text) > max_tokens
    THEN ContextLoopSkips(chunks, i + 1, context_parts, token_count, max_tokens,
                          include_sources)
    ELSE ContextLoopSkips(chunks, i + 1,
                          Append(context_parts, FormatChunk(chunks[i], include_sources)),
                          token_count + ChunkTokens(chunks[i].text),
                          max_tokens, include_sources)

\* the for loop: its locals when it ends; stopped is the 1-based position of
\* the chunk at which it broke off, 0 when it ran to the end
RECURSIVE ContextLoop(_, _, _, _, _, _)
ContextLoop(chunks, i, context_parts, token_count, max_tokens, include_sources) ==
    IF i > Len(chunks)
    THEN [context_parts |-> context_parts, token_count |-> token_count, stopped |-> 0]
    ELSE IF token_count + ChunkTokens(chunks[i].text) > max_tokens
    THEN [context_parts |-> context_parts, token_count |-> token_count, stopped |-> i]
    ELSE ContextLoop(chunks, i + 1,
                     Append(context_parts, FormatChunk(chunks[i], include_sources)),
                     token_count + ChunkTokens(chunks[i].text),
                     max_tokens, include_sources)

\* line 179: the separator of the parts
Separator == <<"\n", "\n", "---", "\n", "\n">>

\* the check for an empty list left out
BuildContextNoSentinel(chunks, max_tokens, include_sources) ==
    join(Separator,
         ContextLoop(chunks, 1, <<>>, 0, max_tokens, include_sources).context_parts)

build_context(chunks, max_tokens, include_sources) ==
    IF chunks = <<>> THEN Sentinel
    ELSE join(Separator,
              ContextLoop(chunks, 1, <<>>, 0, max_tokens, include_sources).context_parts)

----------------------------------------------------------------------------
(* ChromaVectorDB and the index behind it *)

\* the charity names callers pass, and those among them that get indexed
CharityNames == {<<"B">>, <<"a", " ", "b">>}
IndexedNames == {<<"B">>}
CollectionNames == {normalize(n) : n \in CharityNames}

\* truthiness of an Optional[str] and of an Optional[int]
Truthy(o) == o # None /\ The(o) # <<>>
TruthyInt(o) == o # None /\ The(o) # 0

\* where={'charity_name': name}, or no filter
Matches(where, meta) ==
    where = None \/ (HasKey(meta, "charity_name")
                     /\ DictGet(meta, "charity_name", <<>>) = The(where))

\* cosine distances the index reports: 0 (same direction), 1 (orthogonal),
\* 2 (opposite), so that similarity = 1 - distance is 1, 0 or -1
Distances == {0, 1, 2}
Similarities == {1 - d : d \in Distances}

Injective(f) == \A i, j \in DOMAIN f : f[i] = f[j] => i = j

\* collection.query(...): what the index may answer.  The embedding model
\* decides the distances and the store the order, so both are free here.
IndexAnswers(stored, where, n_results) ==
    LET match == {i \in 1..Len(stored) : Matches(where, stored[i].metadata)}
        n == Min(n_results, Cardinality(match))
    IN  {[j \in 1..n |-> [doc |-> stored[p[j]].text,
                           meta |-> stored[p[j]].metadata,
                           distance |-> d[j]]] :
            p \in {q \in [1..n -> match] : Injective(q)},
            d \in [1..n -> Distances]}

\* the loop of search: similarity = 1 - distance, kept when >= threshold
RECURSIVE FormatResults(_, _, _)
FormatResults(answer, i, threshold) ==
    IF i > Len(answer) THEN <<>>
    ELSE LET similarity == 1 - answer[i].distance
             rest == FormatResults(answer, i + 1, threshold)
         IN  IF similarity >= threshold
             THEN <<[rank |-> i, text |-> answer[i].doc,
                     similarity |-> similarity, metadata |-> answer[i].meta]>> \o rest
             ELSE rest

\* ChromaVectorDB.search; query_raises: collection.query threw
search(coll, threshold, answer, query_raises) ==
    IF coll = None THEN <<>>
    ELSE IF query_raises THEN <<>>
    ELSE FormatResults(answer, 1, threshold)

----------------------------------------------------------------------------
(* SemanticRetriever *)

Queries == {<<"a">>}
Faults == {"none", "embed_query", "get_collection", "query", "filter", "rerank"}

\* top_k or self.config.top_k
RequestedK(top_k, cfg) == IF TruthyInt(top_k) THEN The(top_k) ELSE cfg.top_k

\* a failed lookup swallowed: the search goes on with whatever is bound
CollectionLookupIgnoresMissing(charity_name, cl, coll, fault) ==
    IF ~Truthy(charity_name)
       \/ cl[normalize(The(charity_name))] = None \/ fault = "get_collection"
    THEN [found |-> TRUE, collection |-> coll]
    ELSE [found |-> TRUE,
          collection |-> Some([name |-> normalize(The(charity_name)), live |-> TRUE])]

\* a call without charity_name that binds a collection the client holds
CollectionLookupBindsAny(charity_name, cl, coll, fault) ==
    IF ~Truthy(charity_name)
    THEN [found |-> TRUE,
          collection |-> IF \E n \in DOMAIN cl : cl[n] # None
                         THEN Some([name |-> CHOOSE n \in DOMAIN cl : cl[n] # None,
                                    live |-> TRUE])
                         ELSE coll]
    ELSE IF cl[normalize(The(charity_name))] = None \/ fault = "get_collection"
    THEN [found |-> FALSE, collection |-> coll]
    ELSE [found |-> TRUE,
          collection |-> Some([name |-> normalize(The(charity_name)), live |-> TRUE])]

\* lines 48-54: the adapter's get_collection binds the collection when the
\* client holds it and raises otherwise; found is FALSE when it raised
CollectionLookup(charity_name, cl, coll, fault) ==
    IF ~Truthy(charity_name) THEN [found |-> TRUE, collection |-> coll]
    ELSE IF cl[normalize(The(charity_name))] = None \/ fault = "get_collection"
    THEN [found |-> FALSE, collection |-> coll]
    ELSE [found |-> TRUE,
          collection |-> Some([name |-> normalize(The(charity_name)), live |-> TRUE])]

\* the filter left out: every result of search goes on
FilterNothing(results, cfg) == results

\* lines 67-70
FilterByThreshold(results, cfg) ==
    SelectSeq(results, LAMBDA r : r.similarity >= cfg.similarity_threshold)

\* sorted(..., key=similarity, reverse=True) is stable: an element goes after
\* every element whose similarity is not smaller
RECURSIVE InsertDesc(_, _)
InsertDesc(sorted, r) ==
    IF sorted = <<>> THEN <<r>>
    ELSE IF Head(sorted).similarity >= r.similarity
    THEN <<Head(sorted)>> \o InsertDesc(Tail(sorted), r)
    ELSE <<r>> \o sorted

RECURSIVE SortedDesc(_, _)
SortedDesc(done, todo) ==
    IF todo = <<>> THEN done ELSE SortedDesc(InsertDesc(done, Head(todo)), Tail(todo))

\* the sort left out
RerankKeepsOrder(results) == results

\* a sort that is not stable: equal similarities come out in reverse
RerankReversesTies(results) ==
    SortedDesc(<<>>, [i \in 1..Len(results) |-> results[Len(results) + 1 - i]])

_rerank_results(results) == SortedDesc(<<>>, results)

\* filtered_results[:k]
Take(results, k) == SubSeq(results, 1, Min(k, Len(results)))

LogEntry(query, status) == [query |-> query, status |-> status]

\* a handler that writes to log_entry whether or not debug created it, and so
\* raises itself when debug is off
ExceptHandlerNeedsLogEntry(query, coll, searched, cfg) ==
    [results |-> <<>>, raised |-> ~cfg.debug, collection |-> coll,
     searched |-> searched,
     log |-> IF cfg.debug THEN Some(LogEntry(query, "error")) ELSE None]

\* lines 99-106: the handler of the outer try
ExceptHandler(query, coll, searched, cfg) ==
    [results |-> <<>>, raised |-> FALSE, collection |-> coll, searched |-> searched,
     log |-> IF cfg.debug THEN Some(LogEntry(query, "error")) ELSE None]

\* whether collection.query is reached with a collection bound, and what makes it throw
QueryIssued(coll) == coll # None
QueryRaises(coll, k, fault) ==
    fault = "query" \/ (coll # None /\ ~The(coll).live) \/ k * 2 < 1

\* the step of retrieve that threw in this call, "none" when none did
Threw(charity_name, top_k, fault, answer, cl, coll, cfg) ==
    LET k == RequestedK(top_k, cfg)
        lookup == CollectionLookup(charity_name, cl, coll, fault)
        bound == lookup.collection
        results == search(bound, 0, answer, QueryRaises(bound, k, fault))
        filtered_results == FilterByThreshold(results, cfg)
    IN  IF fault = "embed_query" THEN "embed_query"
        ELSE IF ~lookup.found THEN "get_collection"
        ELSE IF QueryIssued(bound) /\ QueryRaises(bound, k, fault) THEN "query"
        ELSE IF fault = "filter" THEN "filter"
        ELSE IF fault = "rerank" /\ cfg.rerank /\ Len(filtered_results) > 1 THEN "rerank"
        ELSE "none"

\* SemanticRetriever.retrieve: the result, the adapter's binding after the
\* call, the log entry appended, and the collection the index was queried on
retrieve(query, charity_name, top_k, fault, answer, cl, coll, cfg) ==
    LET k == RequestedK(top_k, cfg)
        lookup == CollectionLookup(charity_name, cl, coll, fault)
        bound == lookup.collection
        searched == IF QueryIssued(bound) THEN Some(The(bound).name) ELSE None
        results == search(bound, 0, answer, QueryRaises(bound, k, fault))
        filtered_results == FilterByThreshold(results, cfg)
        reranks == cfg.rerank /\ Len(filtered_results) > 1
        reranked == IF reranks THEN _rerank_results(filtered_results)
                    ELSE filtered_results
    IN  IF fault = "embed_query" THEN ExceptHandler(query, coll, None, cfg)
        ELSE IF ~lookup.found
        THEN [results |-> <<>>, raised |-> FALSE, collection |-> coll,
              searched |-> None, log |-> None]
        ELSE IF fault = "filter" \/ (fault = "rerank" /\ reranks)
        THEN ExceptHandler(query, bound, searched, cfg)
        ELSE [results |-> Take(reranked, k), raised |-> FALSE, collection |-> bound,
              searched |-> searched,
              log |-> IF cfg.debug THEN Some(LogEntry(query, "success")) ELSE None]

\* the answers the index can give to the query of this call
AnswersFor(charity_name, top_k, fault, cl, coll, cfg) ==
    LET lookup == CollectionLookup(charity_name, cl, coll, fault)
        bound == lookup.collection
        k == RequestedK(top_k, cfg)
    IN  IF fault # "embed_query" /\ lookup.found /\ QueryIssued(bound)
           /\ ~QueryRaises(bound, k, fault) /\ cl[The(bound).name] # None
        THEN IndexAnswers(The(cl[The(bound).name]),
                          IF Truthy(charity_name) THEN charity_name ELSE None, k * 2)
        ELSE {<<>>}

----------------------------------------------------------------------------
(* EmbeddingPipeline *)

IndexFaults ==
    {"none", "chunk_document", "embed_chunks", "create_collection", "add_chunks"}

Strategies == {"fixed", "paragraph", "semantic"}

\* the chunk configurations of the pipelines that index, scaled to the
\* documents of the model: a window of one word, no overlap
PipelineConfigs ==
    {[chunk_size |-> 2, overlap |-> 0, strategy |-> "fixed", min_chunk_size |-> 1]}

\* the documents handed to process_charity
Documents == {<<"a">>, <<"a", " ", "a">>}

\* add_chunks: what the collection keeps of each chunk
Stored(chunks) ==
    [i \in 1..Len(chunks) |->
        [id |-> chunks[i].id, text |-> chunks[i].text, metadata |-> chunks[i].metadata]]

\* create_collection without the delete: get_or_create alone keeps what the
\* collection of that name holds
GetOrCreateCollection(cl, name) ==
    IF cl[name] = None THEN [cl EXCEPT ![name] = Some(<<>>)] ELSE cl

\* ChromaVectorDB.create_collection: delete the collection of that name if
\* there is one, then create it
create_collection(cl, name) == [cl EXCEPT ![name] = Some(<<>>)]

\* ChromaVectorDB.add_chunks on the collection just created
add_chunks(cl, name, chunks) ==
    [cl EXCEPT ![name] = Some(The(cl[name]) \o Stored(chunks))]

\* a handler that lets a failure of the index go on to the caller
PipelineExceptReraisesIndexErrors(charity_name, threw, cl, replaced) ==
    [status |-> "error", error |-> Some(threw),
     raised |-> threw \in {"create_collection", "add_chunks"},
     inserted |-> <<>>, client |-> cl, replaced |-> replaced]

\* lines 71-77: the handler of the try, threw the step that failed
PipelineExcept(charity_name, threw, cl, replaced) ==
    [status |-> "error", error |-> Some(threw), raised |-> FALSE,
     inserted |-> <<>>, client |-> cl, replaced |-> replaced]

\* EmbeddingPipeline.process_charity: the record returned, the chunks handed
\* to add_chunks and the client afterwards
process_charity(charity_name, document_text, document_metadata, fault, cl, cfg) ==
    LET chunks == chunk_document(document_text, Some(OrEmpty(document_metadata)), cfg)
        collection_name == normalize(charity_name)
        created == create_collection(cl, collection_name)
    IN  IF fault \in {"chunk_document", "embed_chunks"}
        THEN PipelineExcept(charity_name, fault, cl, FALSE)
        ELSE IF fault = "create_collection"
        THEN PipelineExcept(charity_name, fault,
                            [cl EXCEPT ![collection_name] = None], TRUE)
        ELSE IF fault = "add_chunks"
        THEN PipelineExcept(charity_name, fault, created, TRUE)
        ELSE [status |-> "success", error |-> None, raised |-> FALSE,
              inserted |-> Stored(chunks),
              client |-> add_chunks(created, collection_name, chunks),
              replaced |-> TRUE]

\* a handle on a collection that was deleted no longer answers queries
AfterReplace(coll, collection_name) ==
    IF coll # None /\ The(coll).name = collection_name
    THEN Some([The(coll) EXCEPT !.live = FALSE])
    ELSE coll

----------------------------------------------------------------------------
(* The state machine *)

NoRet == [called |-> FALSE, query |-> <<>>, charity_name |-> None, top_k |-> None,
          results |-> <<>>, raised |-> FALSE, searched |-> None, answer |-> <<>>,
          threw |-> "none"]

NoIdx == [called |-> FALSE, charity_name |-> <<>>, document_metadata |-> None,
          status |-> "none", inserted |-> <<>>, threw |-> "none", error |-> None,
          raised |-> FALSE, before |-> None]

DefaultChunkConfig ==
    [chunk_size |-> 1, overlap |-> 0, strategy |-> "fixed", min_chunk_size |-> 0]

NoLoop == [context_parts |-> <<>>, token_count |-> 0, stopped |-> 0]

NoFn == [op |-> "none", text |-> <<>>, metadata |-> None, cfg |-> DefaultChunkConfig,
         out |-> <<>>, chunks |-> <<>>, max_tokens |-> 0, include_sources |-> TRUE,
         context |-> <<>>, loop |-> NoLoop, tokens |-> 0]

\* no _chunk_fixed_size under way
NoFx == [pc |-> "idle", n_words |-> 0, cfg |-> DefaultChunkConfig,
         start_idx |-> 0, chunk_id |-> 0, chunks |-> <<>>]

CallIds == {1, 2}

NoCall == [pc |-> "idle", charity_name |-> None, results |-> <<>>, searched |-> None]

NoCalls == [p \in CallIds |-> NoCall]

\* RAGSystem.__init__: empty conversation_history and session_logs; returned
\* is what the query calls so far gave back to their callers
NoRag == [conversation_history |-> <<>>, session_logs |-> <<>>, returned |-> <<>>]

\* SESSIONS = {}
NoSessions == <<>>

\* ConversationWindow() with the defaults of the dataclass; added is every
\* message handed to add_message so far
DefaultWindow ==
    [max_messages |-> 10, max_tokens |-> 4000, messages |-> <<>>, added |-> <<>>]

RetrievalConfigs ==
    [top_k : 1..MaxTopK, similarity_threshold : Similarities,
     rerank : BOOLEAN, debug : BOOLEAN]

Init ==
    /\ client = [n \in CollectionNames |-> None]
    /\ collection = None
    /\ retrieval_logs = <<>>
    /\ config \in RetrievalConfigs
    /\ ret = NoRet
    /\ idx = NoIdx
    /\ fn = NoFn
    /\ fx = NoFx
    /\ calls = NoCalls
    /\ rag = NoRag
    /\ SESSIONS = NoSessions
    /\ requests = <<>>
    /\ window = DefaultWindow

\* no call is waiting for its caller
Idle == ~ret.called /\ ~idx.called

Retrieve ==
    /\ Idle
    /\ Len(retrieval_logs) < MaxLogs
    /\ \E query \in Queries, charity_name \in Opt(CharityNames \cup {<<>>}),
       top_k \in Opt(0..MaxTopK), fault \in Faults :
      \E answer \in AnswersFor(charity_name, top_k, fault, client, collection, config) :
        LET out == retrieve(query, charity_name, top_k, fault, answer,
                            client, collection, config)
        IN  /\ collection' = out.collection
            /\ retrieval_logs' = IF out.log = None THEN retrieval_logs
                                 ELSE Append(retrieval_logs, The(out.log))
            /\ ret' = [called |-> TRUE, query |-> query, charity_name |-> charity_name,
                       top_k |-> top_k, results |-> out.results, raised |-> out.raised,
                       searched |-> out.searched, answer |-> answer,
                       threw |-> Threw(charity_name, top_k, fault, answer,
                                       client, collection, config)]
            /\ UNCHANGED <<client, config, idx, fn, fx, calls, rag, SESSIONS, requests, window>>

\* a process_charity call for one of the names
ProcessCharityOf(names) ==
    /\ Idle
    /\ \E charity_name \in names, document_text \in Documents,
       cfg \in PipelineConfigs, fault \in IndexFaults :
      \E document_metadata \in {None, Some(CharityMeta(charity_name))} :
        LET out == process_charity(charity_name, document_text, document_metadata,
                                   fault, client, cfg)
        IN  /\ client' = out.client
            /\ collection' = IF out.replaced
                             THEN AfterReplace(collection, normalize(charity_name))
                             ELSE collection
            /\ idx' = [called |-> TRUE, charity_name |-> charity_name,
                       document_metadata |-> document_metadata,
                       status |-> out.status, inserted |-> out.inserted,
                       threw |-> fault, error |-> out.error, raised |-> out.raised,
                       before |-> client[normalize(charity_name)]]
            /\ UNCHANGED <<retrieval_logs, config, ret, fn, fx, calls, rag, SESSIONS, requests, window>>

ProcessCharity == ProcessCharityOf(IndexedNames)

\* the caller takes the result of the call and is free to call again
Return ==
    /\ ~Idle
    /\ ret' = NoRet
    /\ idx' = NoIdx
    /\ UNCHANGED <<client, collection, retrieval_logs, config, fn, fx, calls, rag, SESSIONS, requests, window>>

Next == Retrieve \/ ProcessCharity \/ Return

Spec == Init /\ [][Next]_vars

----------------------------------------------------------------------------
(* The pure functions, applied to inputs drawn from bounded sets *)

Texts == SeqsUpTo(Char, MaxTextLen)

ChunkConfigs ==
    [chunk_size : 1..MaxChunkSize, overlap : 0..MaxOverlap,
     strategy : Strategies, min_chunk_size : 0..MaxMinChunk]

\* a text of n words
Words(n) == join(<<" ">>, [i \in 1..n |-> <<"a">>])

ResultChunks ==
    [text : {Words(n) : n \in 0..MaxWords},
     metadata : {EmptyDict, CharityMeta(<<"a", " ", "b">>)}]

InitFn ==
    /\ client = [n \in CollectionNames |-> None]
    /\ collection = None
    /\ retrieval_logs = <<>>
    /\ config = [top_k |-> MaxTopK, similarity_threshold |-> 0,
                 rerank |-> TRUE, debug |-> TRUE]
    /\ ret = NoRet
    /\ idx = NoIdx
    /\ fn = NoFn
    /\ fx = NoFx
    /\ calls = NoCalls
    /\ rag = NoRag
    /\ SESSIONS = NoSessions
    /\ requests = <<>>
    /\ window = DefaultWindow

ChunkDocument ==
    /\ fn.op = "none"
    /\ \E text \in Texts, metadata \in {None, Some(SourceMeta)}, cfg \in ChunkConfigs :
        /\ fn' = [NoFn EXCEPT !.op = "chunk_document", !.text = text,
                              !.metadata = metadata, !.cfg = cfg,
                              !.out = chunk_document(text, metadata, cfg)]
        /\ UNCHANGED <<client, collection, retrieval_logs, config, ret, idx, fx, calls, rag, SESSIONS, requests, window>>

BuildContext ==
    /\ fn.op = "none"
    /\ \E chunks \in SeqsUpTo(ResultChunks, MaxResults), max_tokens \in 0..MaxBudget,
       include_sources \in BOOLEAN :
        /\ fn' = [NoFn EXCEPT !.op = "build_context", !.chunks = chunks,
                              !.max_tokens = max_tokens,
                              !.include_sources = include_sources,
                              !.context = build_context(chunks, max_tokens, include_sources),
                              !.loop = ContextLoop(chunks, 1, <<>>, 0, max_tokens,
                                                   include_sources)]
        /\ UNCHANGED <<client, collection, retrieval_logs, config, ret, idx, fx, calls, rag, SESSIONS, requests, window>>

EstimateTokens ==
    /\ fn.op = "none"
    /\ \E text \in Texts :
        /\ fn' = [NoFn EXCEPT !.op = "estimate_tokens", !.text = text,
                              !.tokens = estimate_tokens(text)]
        /\ UNCHANGED <<client, collection, retrieval_logs, config, ret, idx, fx, calls, rag, SESSIONS, requests, window>>

NextFn == ChunkDocument \/ BuildContext \/ EstimateTokens

SpecFn == InitFn /\ [][NextFn]_vars

----------------------------------------------------------------------------
(* Indexing alone: every charity re-indexed in any order *)

\* the charities indexed; "B" and "b" share the collection "b"
AllNames == CharityNames \cup {<<"b">>}

IndexCharity == ProcessCharityOf(AllNames)

NextIndex == IndexCharity \/ Return

SpecIndex == InitFn /\ [][NextIndex]_vars

----------------------------------------------------------------------------
(* Two retrieve calls side by side on one retriever and one adapter, as two  *)
(* requests served by the retriever of get_rag_system.  A call is two steps: *)
(* up to and including get_collection, and from search on.  The index is    *)
(* not written to, and answers a query the same way every time.             *)

EmptyClient == [n \in CollectionNames |-> None]

\* the client after process_charity for "B", and for "a b" or not
IndexedClients ==
    LET cfg == CHOOSE c \in PipelineConfigs : TRUE
        first == {process_charity(<<"B">>, d, m, "none", EmptyClient, cfg).client :
                     d \in Documents, m \in {None, Some(CharityMeta(<<"B">>))}}
    IN  first \cup
        {process_charity(<<"a", " ", "b">>, d, m, "none", cl, cfg).client :
            cl \in first, d \in Documents,
            m \in {None, Some(CharityMeta(<<"a", " ", "b">>))}}

InitConc ==
    /\ client \in IndexedClients
    /\ collection = None
    /\ retrieval_logs = <<>>
    /\ config \in RetrievalConfigs
    /\ ret = NoRet
    /\ idx = NoIdx
    /\ fn = NoFn
    /\ fx = NoFx
    /\ calls = NoCalls
    /\ rag = NoRag
    /\ SESSIONS = NoSessions
    /\ requests = <<>>
    /\ window = DefaultWindow

\* collection.query: the matching chunks in stored order, nearest first, all
\* at distance 0
RankedAnswer(stored, where, n_results) ==
    LET match == SelectSeq(stored, LAMBDA c : Matches(where, c.metadata))
    IN  [j \in 1..Min(n_results, Len(match)) |->
            [doc |-> match[j].text, meta |-> match[j].metadata, distance |-> 0]]

\* what the collection bound to the adapter answers to a query filtered by name
BoundAnswer(charity_name, cl, coll, cfg) ==
    IF coll = None \/ cl[The(coll).name] = None THEN <<>>
    ELSE RankedAnswer(The(cl[The(coll).name]), charity_name, cfg.top_k * 2)

\* lines 56-98: retrieve from the call of search on, on the collection the
\* adapter holds at that moment
RetrieveFromSearch(query, charity_name, cl, coll, cfg) ==
    retrieve(query, None, None, "none", BoundAnswer(charity_name, cl, coll, cfg),
             cl, coll, cfg)

\* lines 39-54: the call embeds the query and looks its collection up
Lookup(p) ==
    /\ calls[p].pc = "idle"
    /\ \E charity_name \in CharityNames :
        LET lookup == CollectionLookup(Some(charity_name), client, collection, "none")
        IN  /\ collection' = lookup.collection
            /\ calls' = [calls EXCEPT ![p] =
                    [pc |-> IF lookup.found THEN "looked_up" ELSE "done",
                     charity_name |-> Some(charity_name),
                     results |-> <<>>, searched |-> None]]
    /\ UNCHANGED <<client, retrieval_logs, config, ret, idx, fn, fx, rag, SESSIONS, requests, window>>

\* lines 56-98: the call searches, filters, reranks and returns
Search(p) ==
    /\ calls[p].pc = "looked_up"
    /\ LET out == RetrieveFromSearch(<<"a">>, calls[p].charity_name, client,
                                     collection, config)
       IN  /\ calls' = [calls EXCEPT ![p].pc = "done",
                                     ![p].results = out.results,
                                     ![p].searched = out.searched]
           /\ retrieval_logs' = IF out.log = None THEN retrieval_logs
                                ELSE Append(retrieval_logs, The(out.log))
    /\ UNCHANGED <<client, collection, config, ret, idx, fn, fx, rag, SESSIONS, requests, window>>

NextConc == \E p \in CallIds : Lookup(p) \/ Search(p)

SpecConc == InitConc /\ [][NextConc]_vars

----------------------------------------------------------------------------
(* chunk_document applied to documents made of words, spaces, paragraph     *)
(* breaks and sentence breaks                                               *)

Pieces == {<<"a">>, <<" ">>, <<"\n", "\n">>, <<".", " ", "B">>}

PieceTexts == {Concat(ps) : ps \in SeqsUpTo(Pieces, MaxPieces)}

ChunkPieces ==
    /\ fn.op = "none"
    /\ \E text \in PieceTexts, cfg \in ChunkConfigs :
        /\ fn' = [NoFn EXCEPT !.op = "chunk_document", !.text = text,
                              !.cfg = cfg,
                              !.out = chunk_document(text, None, cfg)]
        /\ UNCHANGED <<client, collection, retrieval_logs, config, ret, idx, fx, calls, rag, SESSIONS, requests, window>>

NextChunk == ChunkPieces

SpecChunk == InitFn /\ [][NextChunk]_vars

----------------------------------------------------------------------------
(* _chunk_fixed_size run one iteration at a time.  The document is its list  *)
(* of words, of which the loop looks only at the number: the text of a      *)
(* chunk is words[start_idx:end_idx] joined by single spaces, so it has     *)
(* end_idx - start_idx words.                                               *)

\* count_tokens_in_chunk of a text of k words
TokensOfWords(k) == Max(1, (4 * k) \div 3)

\* ChunkConfig(strategy="fixed", chunk_size=256, overlap=50): the
\* configuration of the indexing scripts, min_chunk_size at its default
IndexConfig ==
    [chunk_size |-> 256, overlap |-> 50, strategy |-> "fixed", min_chunk_size |-> 100]

LoopConfigs ==
    [chunk_size : 1..MaxLoopChunk, overlap : 0..MaxLoopOverlap,
     strategy : {"fixed"}, min_chunk_size : 0..MaxMinChunk]

\* the start of the next window taken as computed, without the step forward
NextStartAsComputed(next_start_idx, start_idx) == next_start_idx

\* start_idx = max(next_start_idx, start_idx + 1)
NextStart(next_start_idx, start_idx) == Max(next_start_idx, start_idx + 1)

\* words = text.split(); start_idx = 0; chunk_id = 0
FixedBegin ==
    /\ fx.pc = "idle"
    /\ \E run \in ((0..MaxLoopWords) \X LoopConfigs)
                  \cup ((0..MaxDocWords) \X {IndexConfig}) :
        fx' = [pc |-> "loop", n_words |-> run[1], cfg |-> run[2],
               start_idx |-> 0, chunk_id |-> 0, chunks |-> <<>>]
    /\ UNCHANGED <<client, collection, retrieval_logs, config, ret, idx, fn, calls, rag, SESSIONS, requests, window>>

\* one pass through the body of the while loop
FixedIterate ==
    /\ fx.pc = "loop"
    /\ fx.start_idx < fx.n_words
    /\ LET end_idx == Min(fx.start_idx + WordsPerChunk(fx.cfg), fx.n_words)
           token_count == TokensOfWords(end_idx - fx.start_idx)
           keep == token_count >= fx.cfg.min_chunk_size
           chunk == [id |-> ChunkIdStr(fx.chunk_id),
                     start_idx |-> fx.start_idx,
                     end_idx |-> end_idx,
                     token_count |-> token_count]
           chunks2 == IF keep THEN Append(fx.chunks, chunk) ELSE fx.chunks
           chunk_id2 == IF keep THEN fx.chunk_id + 1 ELSE fx.chunk_id
           next_start_idx == end_idx - OverlapWords(fx.cfg)
       IN  IF next_start_idx >= fx.start_idx /\ end_idx = fx.n_words
           THEN fx' = [fx EXCEPT !.pc = "done", !.chunks = chunks2,
                                 !.chunk_id = chunk_id2]
           ELSE fx' = [fx EXCEPT !.chunks = chunks2, !.chunk_id = chunk_id2,
                                 !.start_idx = NextStart(next_start_idx, fx.start_idx)]
    /\ UNCHANGED <<client, collection, retrieval_logs, config, ret, idx, fn, calls, rag, SESSIONS, requests, window>>

\* the test of the while loop fails: return chunks
FixedExit ==
    /\ fx.pc = "loop"
    /\ ~(fx.start_idx < fx.n_words)
    /\ fx' = [fx EXCEPT !.pc = "done"]
    /\ UNCHANGED <<client, collection, retrieval_logs, config, ret, idx, fn, calls, rag, SESSIONS, requests, window>>

NextLoop == FixedBegin \/ FixedIterate \/ FixedExit

\* the loop is code that runs: an iteration that can be taken is taken
SpecLoop ==
    InitFn /\ [][NextLoop]_vars /\ WF_vars(FixedIterate) /\ WF_vars(FixedExit)

----------------------------------------------------------------------------
(* RAGSystem.query on a store that has been indexed *)

\* what the language model answers, and whether generate throws
Responses == {<<"answer">>}
LlmFaults == {"none", "generate"}

\* charity_name or "this organization"
OrThisOrganization(charity_name) ==
    IF Truthy(charity_name) THEN The(charity_name) ELSE <<"this organization">>

\* PromptFormatter.format_fallback_prompt
format_fallback_prompt(query, charity_name) ==
    <<"I don't have enough information from ">> \o charity_name
        \o <<"'s documents to answer: ">> \o query

Message(role, content) == [role |-> role, content |-> content]

\* a handler that has already put the question into the history
QueryExceptKeepsQuestion(query, r, generated, retrieved) ==
    [result |-> [status |-> "error", query |-> query, response |-> None,
                 retrieved_chunks |-> None],
     generated |-> generated, retrieved |-> retrieved, raised |-> FALSE,
     conversation_history |-> Append(r.conversation_history, Message("user", query)),
     session_logs |-> r.session_logs]

\* lines 153-160: the handler of the try of query
QueryExcept(query, r, generated, retrieved) ==
    [result |-> [status |-> "error", query |-> query, response |-> None,
                 retrieved_chunks |-> None],
     generated |-> generated, retrieved |-> retrieved, raised |-> FALSE,
     conversation_history |-> r.conversation_history,
     session_logs |-> r.session_logs]

\* RAGSystem.query on top of the outcome out of retrieve: the dict returned,
\* whether generate was called, how many chunks retrieval gave, and the
\* conversation_history and session_logs afterwards.  build_context and the
\* prompt formatting in between return a string for every input.
query(q, charity_name, out, llm_fault, response, r) ==
    LET retrieved_chunks == out.results
        generated == retrieved_chunks # <<>>
        text == IF generated THEN response
                ELSE format_fallback_prompt(q, OrThisOrganization(charity_name))
        result == [status |-> "success", query |-> q, response |-> Some(text),
                   retrieved_chunks |-> Some(Len(retrieved_chunks))]
    IN  IF out.raised THEN QueryExcept(q, r, FALSE, 0)
        ELSE IF generated /\ llm_fault = "generate"
        THEN QueryExcept(q, r, TRUE, Len(retrieved_chunks))
        ELSE [result |-> result,
              generated |-> generated, retrieved |-> Len(retrieved_chunks),
              raised |-> FALSE,
              conversation_history |->
                  r.conversation_history
                      \o <<Message("user", q), Message("assistant", text)>>,
              session_logs |-> Append(r.session_logs, result)]

\* what a caller of query sees of a call
Returned(q) ==
    [result |-> q.result, generated |-> q.generated, retrieved |-> q.retrieved,
     raised |-> q.raised]

\* the retrieval configurations a RAGSystem is built with: reranking on, one
\* chunk asked for, debug on (RAGConfig's default) or off (get_rag_system)
RagRetrievalConfigs ==
    {[top_k |-> 1, similarity_threshold |-> 0, rerank |-> TRUE, debug |-> d] :
        d \in BOOLEAN}

InitRag ==
    /\ client \in IndexedClients
    /\ collection = None
    /\ retrieval_logs = <<>>
    /\ config \in RagRetrievalConfigs
    /\ ret = NoRet
    /\ idx = NoIdx
    /\ fn = NoFn
    /\ fx = NoFx
    /\ calls = NoCalls
    /\ rag = NoRag
    /\ SESSIONS = NoSessions
    /\ requests = <<>>
    /\ window = DefaultWindow

Query ==
    /\ Len(rag.returned) < MaxQueries
    /\ \E q \in Queries, charity_name \in Opt(CharityNames), fault \in Faults,
          llm_fault \in LlmFaults, response \in Responses :
      \E answer \in AnswersFor(charity_name, None, fault, client, collection, config) :
        LET out == retrieve(q, charity_name, None, fault, answer, client, collection,
                            config)
            done == query(q, charity_name, out, llm_fault, response, rag)
        IN  /\ collection' = out.collection
            /\ retrieval_logs' = IF out.log = None THEN retrieval_logs
                                 ELSE Append(retrieval_logs, The(out.log))
            /\ rag' = [conversation_history |-> done.conversation_history,
                       session_logs |-> done.session_logs,
                       returned |-> Append(rag.returned, Returned(done))]
    /\ UNCHANGED <<client, config, ret, idx, fn, fx, calls, SESSIONS, requests, window>>

NextRag == Query

SpecRag == InitRag /\ [][NextRag]_vars

----------------------------------------------------------------------------
(* The chat router: chat, get_chat_history and clear_chat_history over the  *)
(* SESSIONS dictionary, with the RAGSystem of get_rag_system behind chat    *)

\* session ids clients send, and the ids uuid4 hands out one after the other
SessionIds == {"s1", "s2"}
Uuids == <<"u1", "u2", "u3", "u4", "u5">>

\* SESSIONS[session_id] = session
Put(S, session_id, session) ==
    [x \in DOMAIN S \cup {session_id} |-> IF x = session_id THEN session ELSE S[x]]

NewSession == [history |-> <<>>, created_at |-> None]

\* dependencies.get_session: the dictionary afterwards
get_session(S, session_id) ==
    IF session_id \in DOMAIN S THEN S ELSE Put(S, session_id, NewSession)

\* a clear that empties the history of every session
ClearEveryHistory(S, session_id) ==
    [x \in DOMAIN S |-> [S[x] EXCEPT !.history = <<>>]]

\* clear_chat_history: the dictionary afterwards
clear_chat_history(S, session_id) ==
    IF session_id \in DOMAIN S
    THEN Put(S, session_id, [S[session_id] EXCEPT !.history = <<>>])
    ELSE S

\* the entry chat appends to the history of the session
HistoryEntry(q, result) == [query |-> q, response |-> result.response]

\* request.session_id or str(uuid.uuid4())
SessionIdOf(session_id, uuid) ==
    IF session_id # None /\ The(session_id) # "" THEN The(session_id) ELSE uuid

\* the configuration get_rag_system builds the retriever with
ApiRetrievalConfigs ==
    {[top_k |-> 1, similarity_threshold |-> 0, rerank |-> TRUE, debug |-> FALSE]}

\* the store behind the API: "B" indexed, with or without document_metadata
ApiClients ==
    {process_charity(<<"B">>, <<"a">>, m, "none", EmptyClient, cfg).client :
        cfg \in PipelineConfigs, m \in {None, Some(CharityMeta(<<"B">>))}}

InitApi ==
    /\ client \in ApiClients
    /\ collection = None
    /\ retrieval_logs = <<>>
    /\ config \in ApiRetrievalConfigs
    /\ ret = NoRet
    /\ idx = NoIdx
    /\ fn = NoFn
    /\ fx = NoFx
    /\ calls = NoCalls
    /\ rag = NoRag
    /\ SESSIONS = NoSessions
    /\ requests = <<>>
    /\ window = DefaultWindow

\* POST /chat/
Chat ==
    /\ Len(requests) < MaxRequests
    /\ \E q \in Queries, charity_name \in Opt(CharityNames),
          asked \in Opt(SessionIds \cup {""}),
          llm_fault \in LlmFaults, response \in Responses :
      \E answer \in AnswersFor(charity_name, Some(1), "none", client, collection,
                                config) :
        LET session_id == SessionIdOf(asked, Uuids[Len(requests) + 1])
            sessions == get_session(SESSIONS, session_id)
            out == retrieve(q, charity_name, Some(1), "none", answer, client,
                            collection, config)
            done == query(q, charity_name, out, llm_fault, response, rag)
            entry == HistoryEntry(q, done.result)
        IN  /\ collection' = out.collection
            /\ retrieval_logs' = IF out.log = None THEN retrieval_logs
                                 ELSE Append(retrieval_logs, The(out.log))
            /\ rag' = [conversation_history |-> done.conversation_history,
                       session_logs |-> done.session_logs,
                       returned |-> Append(rag.returned, Returned(done))]
            /\ SESSIONS' = Put(sessions, session_id,
                               [sessions[session_id] EXCEPT
                                   !.history = Append(@, entry)])
            /\ requests' = Append(requests,
                               [op |-> "chat", session_id |-> session_id,
                                entry |-> Some(entry), history |-> None])
    /\ UNCHANGED <<client, config, ret, idx, fn, fx, calls, window>>

\* GET /chat/history/{session_id}
GetChatHistory ==
    /\ Len(requests) < MaxRequests
    /\ \E session_id \in SessionIds :
        LET sessions == get_session(SESSIONS, session_id)
        IN  /\ SESSIONS' = sessions
            /\ requests' = Append(requests,
                               [op |-> "history", session_id |-> session_id,
                                entry |-> None,
                                history |-> Some(sessions[session_id].history)])
    /\ UNCHANGED <<client, collection, retrieval_logs, config, ret, idx, fn, fx,
                   calls, rag, window>>

\* DELETE /chat/history/{session_id}
ClearChatHistory ==
    /\ Len(requests) < MaxRequests
    /\ \E session_id \in SessionIds :
        /\ SESSIONS' = clear_chat_history(SESSIONS, session_id)
        /\ requests' = Append(requests,
                           [op |-> "clear", session_id |-> session_id,
                            entry |-> None, history |-> None])
    /\ UNCHANGED <<client, collection, retrieval_logs, config, ret, idx, fn, fx,
                   calls, rag, window>>

NextApi == Chat \/ GetChatHistory \/ ClearChatHistory

SpecApi == InitApi /\ [][NextApi]_vars

----------------------------------------------------------------------------
(* ConversationWindow, filled through the ConversationManager *)

\* messages[-n:]
LastN(messages, n) ==
    IF n = 0 \/ n >= Len(messages) THEN messages
    ELSE SubSeq(messages, Len(messages) - n + 1, Len(messages))

\* ConversationWindow._trim_window
_trim_window(w) ==
    IF Len(w.messages) > w.max_messages
    THEN [w EXCEPT !.messages = LastN(w.messages, w.max_messages)]
    ELSE w

\* ConversationWindow.add_message
add_message(w, role, content) ==
    _trim_window([w EXCEPT !.messages = Append(w.messages, Message(role, content))])

Contents == {<<"a">>, <<"a", " ", "a">>}

InitWindow ==
    /\ client = [n \in CollectionNames |-> None]
    /\ collection = None
    /\ retrieval_logs = <<>>
    /\ config \in ApiRetrievalConfigs
    /\ ret = NoRet
    /\ idx = NoIdx
    /\ fn = NoFn
    /\ fx = NoFx
    /\ calls = NoCalls
    /\ rag = NoRag
    /\ SESSIONS = NoSessions
    /\ requests = <<>>
    /\ \E max_messages \in 0..MaxWindowMessages, max_tokens \in 1..MaxWindowTokens :
          window = [max_messages |-> max_messages, max_tokens |-> max_tokens,
                    messages |-> <<>>, added |-> <<>>]

\* ConversationManager.add_user_message and add_assistant_message
AddMessage ==
    /\ Len(window.added) < MaxAdds
    /\ \E role \in {"user", "assistant"}, content \in Contents :
        window' = [add_message(window, role, content) EXCEPT
                      !.added = Append(window.added, Message(role, content))]
    /\ UNCHANGED <<client, collection, retrieval_logs, config, ret, idx, fn, fx,
                   calls, rag, SESSIONS, requests>>

NextWindow == AddMessage

SpecWindow == InitWindow /\ [][NextWindow]_vars

----------------------------------------------------------------------------
(* Properties of retrieve, checked under Spec *)

Similarity(candidate) == 1 - candidate.distance

NonIncreasing(sims) == \A i \in 1..(Len(sims) - 1) : sims[i] >= sims[i + 1]

ResultSims == [i \in 1..Len(ret.results) |-> ret.results[i].similarity]
AnswerSims == [i \in 1..Len(ret.answer) |-> Similarity(ret.answer[i])]

\* the top_k the caller asked for: the argument, config.top_k when omitted
AskedTopK == IF ret.top_k # None THEN The(ret.top_k) ELSE config.top_k

\* C1: every item retrieve returns has similarity >= config.similarity_threshold
C1_ThresholdInvariant ==
    ret.called =>
        \A i \in 1..Len(ret.results) :
            ret.results[i].similarity >= config.similarity_threshold

\* a call that returned something while the index had also answered with a
\* candidate below the threshold
C1_Witness ==
    /\ ret.called
    /\ ret.results # <<>>
    /\ \E i \in 1..Len(ret.answer) :
          Similarity(ret.answer[i]) < config.similarity_threshold

\* C2: the returned list is no longer than the top_k passed (config.top_k when
\* omitted) and no longer than the list of candidates the index returned
C2_TopKBound ==
    ret.called =>
        /\ Len(ret.results) <= AskedTopK
        /\ Len(ret.results) <= Len(ret.answer)

\* C3: retrieve never raises, and returns the empty list when a step of it threw
C3_NeverRaises ==
    ret.called =>
        /\ ~ret.raised
        /\ ret.threw # "none" => ret.results = <<>>

\* reranking threw with debug off, after the index had answered
C3_Witness ==
    /\ ret.called
    /\ ret.threw = "rerank"
    /\ ~config.debug
    /\ Len(ret.answer) > 1

\* the collection a non-empty charity_name stands for is not in the client
MissingCollection ==
    /\ ret.called
    /\ Truthy(ret.charity_name)
    /\ client[normalize(The(ret.charity_name))] = None

Survivors ==
    SelectSeq(ret.answer, LAMBDA c : Similarity(c) >= config.similarity_threshold)

\* C5: a candidate the index returned is discarded only when its similarity is
\* below similarity_threshold or it lies beyond the first top_k survivors, so
\* that min(top_k, survivors) candidates are returned
C5_DiscardsOnlyBelowThreshold ==
    (ret.called /\ ret.threw = "none" /\ ret.top_k # Some(0)) =>
        Len(ret.results) = Min(AskedTopK, Len(Survivors))

\* C6 as stated: the returned list is in non-increasing order of similarity
\* whether or not rerank is on, whatever the order of the index
C6_AlwaysOrdered == ret.called => NonIncreasing(ResultSims)

\* C6 amended: the returned list is in non-increasing order of similarity when
\* rerank is on, and when rerank is off provided the index returned its
\* candidates in that order
C6_OrderedWhenRerankedOrRanked ==
    (ret.called /\ (config.rerank \/ NonIncreasing(AnswerSims))) =>
        NonIncreasing(ResultSims)

\* rerank is on, the index answered out of order and two results came back
C6_Witness ==
    /\ ret.called
    /\ config.rerank
    /\ ~NonIncreasing(AnswerSims)
    /\ Len(ret.results) > 1

----------------------------------------------------------------------------
(* Properties of process_charity, checked under Spec *)

\* C7: every chunk process_charity inserts carries metadata with a
\* charity_name key equal to the charity being indexed
C7_ChunksCarryCharityName ==
    (idx.called /\ idx.status = "success") =>
        \A i \in 1..Len(idx.inserted) :
            /\ HasKey(idx.inserted[i].metadata, "charity_name")
            /\ DictGet(idx.inserted[i].metadata, "charity_name", <<>>) = idx.charity_name

----------------------------------------------------------------------------
(* Properties of chunk_document and build_context, checked under SpecFn *)

\* C8: chunk_document returns no chunk for an empty or all-whitespace text
\* under each strategy, and build_context returns the sentinel, not the empty
\* string, for an empty result list
C8_EmptyInput ==
    /\ (fn.op = "chunk_document" /\ strip(fn.text) = <<>>) => fn.out = <<>>
    /\ (fn.op = "build_context" /\ fn.chunks = <<>>) =>
          (fn.context = Sentinel /\ fn.context # <<>>)

\* a text of blank lines and spaces chunked by paragraphs
C8_Witness ==
    /\ fn.op = "chunk_document"
    /\ fn.text = <<" ", "\n", "\n", " ">>
    /\ fn.cfg.strategy = "paragraph"
    /\ fn.out = <<>>

\* the estimates build_context sums for the first m chunks
RECURSIVE PrefixTokens(_, _)
PrefixTokens(chunks, m) ==
    IF m = 0 THEN 0 ELSE PrefixTokens(chunks, m - 1) + ChunkTokens(chunks[m].text)

\* the length of the longest prefix whose estimates sum to at most max_tokens
LongestFit(chunks, max_tokens) ==
    CHOOSE m \in 0..Len(chunks) :
        /\ PrefixTokens(chunks, m) <= max_tokens
        /\ \A m2 \in 0..Len(chunks) : PrefixTokens(chunks, m2) <= max_tokens => m2 <= m

\* C9: build_context includes exactly the longest prefix of the results whose
\* summed estimates stay within max_tokens, in order, and stops at the first
\* chunk that would exceed it
C9_LongestPrefix ==
    (fn.op = "build_context" /\ fn.chunks # <<>>) =>
        LET n == LongestFit(fn.chunks, fn.max_tokens)
        IN  /\ Len(fn.loop.context_parts) = n
            /\ \A i \in 1..n :
                  fn.loop.context_parts[i] = FormatChunk(fn.chunks[i], fn.include_sources)
            /\ fn.loop.stopped = (IF n < Len(fn.chunks) THEN n + 1 ELSE 0)
            /\ fn.context = join(Separator, fn.loop.context_parts)

\* the loop took a chunk, stopped at the next, and a chunk after that would
\* have fitted
C9_Witness ==
    /\ fn.op = "build_context"
    /\ Len(fn.loop.context_parts) = 1
    /\ fn.loop.stopped = 2
    /\ Len(fn.chunks) = 3
    /\ fn.loop.token_count + ChunkTokens(fn.chunks[3].text) <= fn.max_tokens

\* C10: the token estimate of the string build_context returns is at most
\* max_tokens plus the estimate of the chunk the loop stopped at, and at most
\* max_tokens when every chunk was included
C10_ContextWithinBudget ==
    (fn.op = "build_context" /\ fn.chunks # <<>>) =>
        estimate_tokens(fn.context) <=
            fn.max_tokens + (IF fn.loop.stopped # 0
                             THEN estimate_tokens(fn.chunks[fn.loop.stopped].text)
                             ELSE 0)

----------------------------------------------------------------------------
(* Properties of estimate_tokens, checked under SpecFn *)

\* the words of a text: the positions where a run of non-whitespace begins
WordStarts(t) ==
    {i \in 1..Len(t) : ~IsSpace(t[i]) /\ (i = 1 \/ IsSpace(t[i - 1]))}

WordCount(t) == Cardinality(WordStarts(t))

\* n is x / 0.75 = 4x / 3 rounded to the nearest integer
IsNearest(n, x) == 6 * n - 3 <= 8 * x /\ 8 * x < 6 * n + 3

\* n is 4x / 3 with its fraction cut off
IsTruncated(n, x) == 3 * n <= 4 * x /\ 4 * x < 3 * n + 3

\* C11 as stated: for a text of w words estimate_tokens returns
\* max(1, round(w / 0.75))
C11_RoundedEstimate ==
    fn.op = "estimate_tokens" =>
        \E n \in 0..(2 * Len(fn.text) + 1) :
            IsNearest(n, WordCount(fn.text)) /\ fn.tokens = Max(1, n)

\* C11 amended: for a text of w words estimate_tokens returns
\* max(1, int(w / 0.75)), the quotient with its fraction cut off, so that a
\* text without words yields 1
C11_TruncatedEstimate ==
    fn.op = "estimate_tokens" =>
        \E n \in 0..(2 * Len(fn.text) + 1) :
            IsTruncated(n, WordCount(fn.text)) /\ fn.tokens = Max(1, n)

\* a text of two words, where cutting off and rounding differ
C11_Witness ==
    /\ fn.op = "estimate_tokens"
    /\ WordCount(fn.text) = 2
    /\ fn.tokens = 2

----------------------------------------------------------------------------
(* Properties of the fixed loop, checked under SpecLoop *)

\* C12: every iteration of the fixed loop that does not exit increases
\* start_idx by at least 1, and the loop terminates
C12_FixedLoopTerminates ==
    /\ [][(fx.pc = "loop" /\ fx'.pc = "loop") => fx'.start_idx >= fx.start_idx + 1]_vars
    /\ (fx.pc = "loop") ~> (fx.pc = "done")

\* the loop has gone on although the overlap is as wide as the window
C12_Witness ==
    /\ fx.pc = "loop"
    /\ fx.start_idx >= 2
    /\ fx.cfg.overlap >= fx.cfg.chunk_size
    /\ OverlapWords(fx.cfg) > WordsPerChunk(fx.cfg)

\* the words (counted from 0) that no emitted chunk contains
Uncovered ==
    {w \in 0..(fx.n_words - 1) :
        ~\E i \in 1..Len(fx.chunks) :
            fx.chunks[i].start_idx <= w /\ w < fx.chunks[i].end_idx}

LastEnd == IF fx.chunks = <<>> THEN 0 ELSE fx.chunks[Len(fx.chunks)].end_idx

\* C13: with chunk_size=256, overlap=50, min_chunk_size=100 a document of 3000
\* words yields more than one chunk, and for every document length each
\* token_count lies in [min_chunk_size, chunk_size + overlap] and every word in
\* no chunk lies after the end of the last chunk
C13_SampleDocument ==
    (fx.pc = "done" /\ fx.cfg = IndexConfig) =>
        /\ fx.n_words = 3000 => Len(fx.chunks) > 1
        /\ \A i \in 1..Len(fx.chunks) :
              /\ fx.chunks[i].token_count >= fx.cfg.min_chunk_size
              /\ fx.chunks[i].token_count <= fx.cfg.chunk_size + fx.cfg.overlap
        /\ \A w \in Uncovered : w >= LastEnd

\* the document of 3000 words chunked, its last words in no chunk
C13_Witness ==
    /\ fx.pc = "done"
    /\ fx.cfg = IndexConfig
    /\ fx.n_words = 3000
    /\ Len(fx.chunks) > 1
    /\ Uncovered # {}

----------------------------------------------------------------------------
(* Properties of chunk_document, checked under SpecChunk *)

Chunked(strategy) == fn.op = "chunk_document" /\ fn.cfg.strategy = strategy

\* the paragraphs and the sentences of the text, as the chunkers take them
Paragraphs == StripNonEmpty(split_paragraphs(fn.text))
Sentences == _split_into_sentences(fn.text)

Oversize(unit) == count_tokens_in_chunk(unit) > fn.cfg.chunk_size

\* word w (from 0) of the paragraph lies in a returned window of its words
InSomeWindow(para, w) ==
    \E j \in 1..Len(fn.out) :
        /\ "start_idx" \in DOMAIN fn.out[j]
        /\ fn.out[j].start_idx <= w
        /\ w < fn.out[j].end_idx
        /\ fn.out[j].end_idx <= Len(split(para))
        /\ fn.out[j].text =
              join(<<" ">>, SubSeq(split(para), fn.out[j].start_idx + 1,
                                   fn.out[j].end_idx))

\* the semantic half of C14: a sentence over the budget is a chunk of its own
OversizeSentencesWhole ==
    Chunked("semantic") =>
        \A k \in 1..Len(Sentences) :
            Oversize(Sentences[k]) =>
                \E j \in 1..Len(fn.out) : fn.out[j].text = Sentences[k]

\* the paragraph half of C14: every word of a paragraph over the budget is in
\* a returned chunk
OversizeParagraphsCovered ==
    Chunked("paragraph") =>
        \A k \in 1..Len(Paragraphs) :
            Oversize(Paragraphs[k]) =>
                \A w \in 0..(Len(split(Paragraphs[k])) - 1) :
                    InSomeWindow(Paragraphs[k], w)

\* C14: a unit over the budget is never dropped: every word of a paragraph
\* whose token count exceeds chunk_size is in some chunk, and a sentence whose
\* token count exceeds chunk_size is emitted whole
C14_OversizeUnitsKept == OversizeParagraphsCovered /\ OversizeSentencesWhole

C16_SequentialIds ==
    fn.op = "chunk_document" =>
        \A i \in 1..Len(fn.out) : fn.out[i].id = ChunkIdStr(i - 1)

\* the paragraph strategy spliced the windows of a paragraph over the budget in
\* behind a chunk it had flushed
C16_Witness ==
    /\ Chunked("paragraph")
    /\ Len(fn.out) >= 3
    /\ "start_idx" \notin DOMAIN fn.out[1]
    /\ "start_idx" \in DOMAIN fn.out[2]
    /\ "start_idx" \in DOMAIN fn.out[3]

\* C17: every chunk chunk_document returns has non-empty text
C17_NonEmptyText ==
    fn.op = "chunk_document" =>
        \A i \in 1..Len(fn.out) : fn.out[i].text # <<>>

----------------------------------------------------------------------------
(* Properties of process_charity, checked under SpecIndex *)

\* the step is a process_charity call
IndexingStep == idx'.called /\ ~idx.called

----------------------------------------------------------------------------
(* Properties of retrieve calls side by side, checked under SpecConc *)

\* the collection the charity_name of the call stands for, None without one
OwnCollection(p) ==
    IF client[normalize(The(calls[p].charity_name))] = None THEN None
    ELSE Some(normalize(The(calls[p].charity_name)))

\* what the call returns when no other call runs
Alone(p) ==
    LET name == calls[p].charity_name
        own == IF OwnCollection(p) = None THEN None
               ELSE Some([name |-> The(OwnCollection(p)), live |-> TRUE])
    IN  retrieve(<<"a">>, name, None, "none", BoundAnswer(name, client, own, config),
                 client, None, config).results

\* C20: under any interleaving of two retrieve calls each call searches the
\* collection resolved from its own charity_name and returns what it returns
\* when run alone
C20_CallsIndependent ==
    \A p \in CallIds :
        calls[p].pc = "done" =>
            /\ calls[p].searched = OwnCollection(p)
            /\ calls[p].results = Alone(p)

----------------------------------------------------------------------------
(* Properties of the retrieval log and of the binding, checked under Spec *)

\* a retrieve call is made in this step
RetrieveStep == ret'.called /\ ~ret.called

LastLog == retrieval_logs'[Len(retrieval_logs')]

\* C21: with debug enabled every retrieve call, successful, failing or for a
\* missing collection, appends exactly one entry to retrieval_logs, which
\* carries the query and a status of 'success' or 'error'
C21_OneLogEntryPerCall ==
    [][(RetrieveStep /\ config.debug) =>
          /\ Len(retrieval_logs') = Len(retrieval_logs) + 1
          /\ LastLog.query = ret'.query
          /\ LastLog.status \in {"success", "error"}]_vars

\* the texts the collection bound before the step holds
BoundTexts ==
    IF collection = None \/ client[The(collection).name] = None THEN {}
    ELSE {The(client[The(collection).name])[i].text :
             i \in 1..Len(The(client[The(collection).name]))}

Candidates == FormatResults(ret.answer, 1, 0)

\* retrieve of the call made again with rerank set to r
WithRerank(r) ==
    retrieve(ret.query, ret.charity_name, ret.top_k, "none", ret.answer, client,
             collection, [config EXCEPT !.rerank = r]).results

\* C23: on candidates already in non-increasing order of similarity, ties
\* included, _rerank_results returns the same list in the same order, and
\* retrieve returns the same list with rerank on and with rerank off
C23_RerankNoOpOnSorted ==
    (ret.called /\ ret.threw = "none" /\ NonIncreasing(AnswerSims)) =>
        /\ _rerank_results(Candidates) = Candidates
        /\ WithRerank(TRUE) = WithRerank(FALSE)
        /\ ret.results = WithRerank(~config.rerank)

\* a call with rerank on that returned two chunks of equal similarity
C23_Witness ==
    /\ ret.called
    /\ ret.threw = "none"
    /\ config.rerank
    /\ NonIncreasing(AnswerSims)
    /\ Len(ret.results) >= 2
    /\ ret.results[1].similarity = ret.results[2].similarity
    /\ ret.results[1] # ret.results[2]

----------------------------------------------------------------------------
(* Properties of the fill and flush of paragraphs and sentences, checked    *)
(* under SpecChunk                                                          *)

UnitTokens(units, lo, hi) ==
    SumSeq([i \in 1..(hi - lo + 1) |-> count_tokens_in_chunk(units[lo + i - 1])])

\* the places where a list of n units is cut: after unit c for each c in cuts
GroupLo(cuts, k) == IF k = 1 THEN 1 ELSE 1 + CHOOSE c \in cuts :
                                             Cardinality({d \in cuts : d < c}) = k - 2
GroupHi(cuts, k, n) == IF k = Cardinality(cuts) + 1 THEN n
                       ELSE CHOOSE c \in cuts : Cardinality({d \in cuts : d < c}) = k - 1

\* the cuts are where the next unit does not fit any more, and nowhere else
FillAndFlush(units, cuts, chunk_size) ==
    \A k \in 1..(Cardinality(cuts) + 1) :
        LET lo == GroupLo(cuts, k)
            hi == GroupHi(cuts, k, Len(units))
        IN  /\ UnitTokens(units, lo, hi) <= chunk_size
            /\ hi < Len(units) =>
                  UnitTokens(units, lo, hi) + count_tokens_in_chunk(units[hi + 1])
                      > chunk_size

\* chunk k is the units of group k, in order, joined by sep
ChunksAreGroups(units, cuts, sep) ==
    /\ Len(fn.out) = Cardinality(cuts) + 1
    /\ \A k \in 1..Len(fn.out) :
          fn.out[k].text =
              join(sep, SubSeq(units, GroupLo(cuts, k), GroupHi(cuts, k, Len(units))))

Partitioned(units, sep) ==
    IF units = <<>> THEN fn.out = <<>>
    ELSE \E cuts \in SUBSET (1..(Len(units) - 1)) :
            /\ FillAndFlush(units, cuts, fn.cfg.chunk_size)
            /\ ChunksAreGroups(units, cuts, sep)

NoOversize(units) == \A i \in 1..Len(units) : ~Oversize(units[i])

\* C24: when no paragraph (sentence) exceeds chunk_size, the chunks of the
\* paragraph (semantic) strategy are the non-empty units of the input in input
\* order, each in exactly one chunk, cut exactly where adding the next unit
\* would make the running token total exceed chunk_size, and at the end
C24_UnitsPartitioned ==
    /\ (Chunked("paragraph") /\ NoOversize(Paragraphs)) =>
          Partitioned(Paragraphs, <<"\n", "\n">>)
    /\ (Chunked("semantic") /\ NoOversize(Sentences)) =>
          Partitioned(Sentences, <<>>)

\* three paragraphs, or three sentences, that end up as two chunks
C24_Witness ==
    \/ /\ Chunked("paragraph") /\ NoOversize(Paragraphs)
       /\ Len(Paragraphs) = 3 /\ Len(fn.out) = 2
    \/ /\ Chunked("semantic") /\ NoOversize(Sentences)
       /\ Len(Sentences) = 3 /\ Len(fn.out) = 2

----------------------------------------------------------------------------
(* Properties of retrieve after process_charity, checked under Spec *)

\* the chunks in the collection of the charity the call names
StoredFor(charity_name) ==
    IF client[normalize(charity_name)] = None THEN <<>>
    ELSE The(client[normalize(charity_name)])

\* process_charity stored the chunks with no document_metadata
IndexedWithoutMetadata(charity_name) ==
    /\ StoredFor(charity_name) # <<>>
    /\ \A i \in 1..Len(StoredFor(charity_name)) :
          StoredFor(charity_name)[i].metadata = EmptyDict

\* C25: after process_charity(C, text) succeeded with at least one chunk and
\* no document_metadata, retrieve(query, charity_name=C) has every chunk stored
\* for C as a candidate: the charity filter of the index search excludes none,
\* so the index answers with as many chunks as were asked for or are stored
C25_FilterExcludesNone ==
    (/\ ret.called
     /\ Truthy(ret.charity_name)
     /\ ret.threw = "none"
     /\ IndexedWithoutMetadata(The(ret.charity_name))) =>
        Len(ret.answer) = Min(2 * RequestedK(ret.top_k, config),
                              Len(StoredFor(The(ret.charity_name))))

----------------------------------------------------------------------------
(* Properties of build_context on non-empty results, checked under SpecFn *)

StartsWith(t, prefix) ==
    Len(t) >= Len(prefix) /\ SubSeq(t, 1, Len(prefix)) = prefix

\* C26: for every non-empty result list and every max_tokens the string
\* build_context returns contains the text of the first result, and so is not
\* empty
C26_ContextHoldsFirstResult ==
    (fn.op = "build_context" /\ fn.chunks # <<>>) =>
        /\ fn.context # <<>>
        /\ StartsWith(fn.context, fn.chunks[1].text)

----------------------------------------------------------------------------
(* Properties of the stored token counts, checked under SpecChunk *)

\* C27: under every strategy the token_count stored with a chunk equals
\* estimate_tokens of the chunk's text, so that a stored count within
\* chunk_size means an estimated text size within chunk_size
C27_TokenCountIsEstimate ==
    fn.op = "chunk_document" =>
        \A i \in 1..Len(fn.out) :
            /\ fn.out[i].token_count = estimate_tokens(fn.out[i].text)
            /\ fn.out[i].token_count <= fn.cfg.chunk_size =>
                  estimate_tokens(fn.out[i].text) <= fn.cfg.chunk_size

----------------------------------------------------------------------------
(* Properties of RAGSystem.query, checked under SpecRag *)

\* the dicts of the calls that returned status 'success', in order
Succeeded ==
    LET ok == SelectSeq(rag.returned, LAMBDA c : c.result.status = "success")
    IN  [j \in 1..Len(ok) |-> ok[j].result]

----------------------------------------------------------------------------
(* Properties of the session histories, checked under SpecApi *)

\* the last clear for the session among the first n requests, 0 when none
LastClear(session_id, n) ==
    LET clears == {i \in 1..n : requests[i].op = "clear"
                                /\ requests[i].session_id = session_id}
    IN  IF clears = {} THEN 0 ELSE CHOOSE i \in clears : \A j \in clears : j <= i

\* the entries of the chat requests for the session among the first n
\* requests that came after its last clear, in order
ChatsSinceClear(session_id, n) ==
    LET since == SubSeq(requests, LastClear(session_id, n) + 1, n)
        chats == SelectSeq(since, LAMBDA r : r.op = "chat" /\ r.session_id = session_id)
    IN  [i \in 1..Len(chats) |-> The(chats[i].entry)]

\* the sessions a chat or a get-history request was made for
Touched ==
    {requests[i].session_id : i \in {j \in 1..Len(requests) : requests[j].op # "clear"}}

\* C29: the history of every session is the entries of the chat requests for
\* that session since its last clear, in order, and that is what get-history
\* returns; requests for one session change no other session's history, and
\* clearing an unknown session creates none
C29_SessionHistories ==
    /\ DOMAIN SESSIONS = Touched
    /\ \A session_id \in DOMAIN SESSIONS :
          SESSIONS[session_id].history = ChatsSinceClear(session_id, Len(requests))
    /\ \A i \in 1..Len(requests) :
          requests[i].op = "history" =>
              The(requests[i].history) = ChatsSinceClear(requests[i].session_id, i - 1)

\* a session chatted in, cleared and chatted in again while another session
\* keeps its entry; and a clear of a session nobody had used
C29_Witness ==
    /\ Len(requests) = 3
    /\ requests[1].op = "chat" /\ requests[1].session_id = "s2"
    /\ requests[2].op = "clear" /\ requests[2].session_id = "s1"
    /\ requests[3].op = "chat" /\ requests[3].session_id = "s1"
    /\ Len(SESSIONS["s2"].history) = 1
    /\ Len(SESSIONS["s1"].history) = 1

----------------------------------------------------------------------------
(* Properties of the ConversationWindow, checked under SpecWindow *)

WindowTokens ==
    SumSeq([i \in 1..Len(window.messages) |->
               estimate_tokens(window.messages[i].content)])

\* the window is the most recently added messages, in the order they came
MostRecent ==
    /\ Len(window.messages) <= Len(window.added)
    /\ window.messages = SubSeq(window.added,
                                Len(window.added) - Len(window.messages) + 1,
                                Len(window.added))

\* C30: after any sequence of add_message calls the window holds at most
\* max_messages messages, they are the most recently added ones in insertion
\* order, and their total size is within max_tokens
C30_WindowWithinLimits ==
    /\ Len(window.messages) <= window.max_messages
    /\ MostRecent
    /\ WindowTokens <= window.max_tokens

====
